---- MODULE Spec2Model ----
(***************************************************************************)
(* Model of the custom Lambda runtime (src/runtime.py): the poll ->        *)
(* invoke -> stream -> report-error loop of main, with the three           *)
(* functions get_next_invocation, stream_response and send_error modelled  *)
(* statement group by statement group, and the bytes stream_response       *)
(* writes modelled as sequences of byte values.                            *)
(***************************************************************************)
EXTENDS Integers, Sequences, FiniteSets, TLC

(* ---------------- bounds ---------------- *)
MaxPolls == 2
MaxChunks == 2
MaxTime == 4
MaxSentenceLen == 3

(* ---------------- bytes ---------------- *)
CR == 13
LF == 10
Zero == 48
CRLF == <<CR, LF>>
TERMINATOR == <<Zero, CR, LF, CR, LF>>

RECURSIVE Flat(_)
Flat(ss) == IF ss = <<>> THEN <<>> ELSE Head(ss) \o Flat(Tail(ss))

(* one character of str.encode('utf-8') *)
Utf8Char(cp) ==
    IF cp < 128 THEN <<cp>>
    ELSE IF cp < 2048 THEN <<192 + (cp \div 64), 128 + (cp % 64)>>
    ELSE <<224 + (cp \div 4096), 128 + ((cp \div 64) % 64), 128 + (cp % 64)>>

Utf8(s) == Flat([i \in 1..Len(s) |-> Utf8Char(s[i])])

(* a handler chunk: bytes (data = byte values) or str (data = code points) *)
Bytes(d) == [isStr |-> FALSE, data |-> d]
Str(d) == [isStr |-> TRUE, data |-> d]

ChunkPool ==
    { Bytes(<<>>),
      Bytes(<<97>>),
      Bytes(TERMINATOR),
      Bytes([i \in 1..26 |-> 97 + (i % 3)]),
      Str(<<233>>) }

(* lines 121-122: a str chunk is encoded before anything is measured *)
EncodeChunk(c) == IF c.isStr THEN Utf8(c.data) ELSE c.data

(* format spec :X of line 130 *)
HexDigitLower(d) == IF d < 10 THEN Zero + d ELSE 87 + d
HexDigit(d) == IF d < 10 THEN Zero + d ELSE 55 + d

RECURSIVE Hex(_)
Hex(n) == IF n < 16 THEN <<HexDigit(n)>> ELSE Hex(n \div 16) \o <<HexDigit(n % 16)>>

(* line 130: the size line of a frame *)
SizeLine(chunk_size) == Hex(chunk_size) \o CRLF

(* ---------------- state ---------------- *)
VARIABLES
    pc,            \* position of main / of the function it is executing
    runtime_api,   \* os.environ.get('AWS_LAMBDA_RUNTIME_API'), "" when unset
    polls,         \* number of GET /invocation/next issued so far
    response,      \* what the control plane answered to the last poll
    request_id,    \* main's request_id (0 = None)
    trace_env,     \* os.environ['_X_AMZN_TRACE_ID'] (0 = unset)
    open,          \* number of connections of each kind that are open
    generator,     \* state of the value returned by lambda_handler
    yielded,       \* chunks the generator has yielded, in order
    chunk,         \* stream_response's chunk, after encoding
    chunk_count,   \* stream_response's chunk_count
    total_bytes,   \* stream_response's total_bytes
    wire,          \* the conn.send calls made on the response connection
    resp_requests, \* requests made to /invocation/{id}/response
    status,        \* status of the acknowledgment read from /response (0 = none)
    error_calls,   \* calls of send_error for this invocation
    error_posts,   \* requests made to /invocation/{id}/error
    error_status,  \* status read from /error (0 = none)
    returned,      \* <<function, "return" | "raise">> of the last call main made
    handler_calls, \* calls of lambda_handler for this invocation
    targets,       \* <<endpoint, request id>> of the requests made for this invocation
    deadline_ms,   \* LambdaContext.deadline_ms
    now_ms,        \* int(time.time() * 1000)
    remaining,     \* the last two results of get_remaining_time_in_millis
    event,         \* lambda_handler's event
    handler_pc,    \* position of the generator lambda_handler returned
    index,         \* lambda_handler's index
    chunks         \* what lambda_handler has yielded

runtime_vars == <<pc, runtime_api, polls, response, request_id, trace_env, open,
                  generator, yielded, chunk, chunk_count, total_bytes, wire,
                  resp_requests, status, error_calls, error_posts, error_status,
                  returned, handler_calls, targets>>
time_vars == <<deadline_ms, now_ms, remaining>>
handler_vars == <<event, handler_pc, index, chunks>>
aux_vars == <<time_vars, handler_vars>>
vars == <<runtime_vars, aux_vars>>

Kinds == {"poll", "response", "error"}
NoResponse == [status |-> 0, rid |-> 0, deadline |-> "missing", trace |-> 0, body |-> "empty"]
AckStatuses == {202, 500}

(* what the control plane may answer to poll number id *)
PollResponses(id) ==
    { [status |-> 500, rid |-> 0, deadline |-> "missing", trace |-> 0, body |-> "empty"] }
    \cup
    [ status : {200}, rid : {0, id}, deadline : {"valid", "missing", "malformed"},
      trace : {0, id}, body : {"json", "empty", "invalid"} ]

NoEvent == [has |-> FALSE, sentence |-> <<>>]

(* no context and no handler exist yet *)
TimeIdle == deadline_ms = 0 /\ now_ms = 0 /\ remaining = <<>>
HandlerIdle == event = NoEvent /\ handler_pc = "idle" /\ index = 0 /\ chunks = <<>>

InitRuntime ==
    /\ pc = "start"
    /\ runtime_api \in {"", "127.0.0.1:9001"}
    /\ polls = 0
    /\ response = NoResponse
    /\ request_id = 0
    /\ trace_env = 0
    /\ open = [k \in Kinds |-> 0]
    /\ generator = "none"
    /\ yielded = <<>>
    /\ chunk = <<>>
    /\ chunk_count = 0
    /\ total_bytes = 0
    /\ wire = <<>>
    /\ resp_requests = 0
    /\ status = 0
    /\ error_calls = 0
    /\ error_posts = 0
    /\ error_status = 0
    /\ returned = <<"none", "return">>
    /\ handler_calls = 0
    /\ targets = <<>>

Init == InitRuntime /\ TimeIdle /\ HandlerIdle

Opened(k) == [open EXCEPT ![k] = @ + 1]
Closed(k) == [open EXCEPT ![k] = @ - 1]

invocation_vars == <<generator, yielded, chunk, chunk_count, total_bytes, wire,
                     resp_requests, status, error_calls, error_posts, error_status>>
stream_locals == <<chunk, chunk_count, total_bytes>>
error_vars == <<error_calls, error_posts, error_status>>
poll_vars == <<runtime_api, polls, response, request_id, trace_env>>

(* ---------------- main, lines 194-211 ---------------- *)
(* line 197: not runtime_api *)
ConfigMissingIgnored(api) == FALSE
ConfigMissing(api) == api = ""

Startup ==
    /\ pc = "start"
    /\ \E imported \in BOOLEAN :
          pc' = IF ConfigMissing(runtime_api) \/ ~imported THEN "exited" ELSE "poll"
    /\ UNCHANGED <<poll_vars, open, invocation_vars, returned>>
    /\ UNCHANGED <<handler_calls, targets, aux_vars>>

(* ---------------- get_next_invocation ---------------- *)
(* lines 219-222 of main: without a request id the loop sleeps and polls  *)
(* again, with one it goes on to the handler                              *)
AfterPollUnchecked(rid) == "invoke"
AfterPollAbort(rid) == IF rid # 0 THEN "invoke" ELSE "exited"
AfterPoll(rid) == IF rid # 0 THEN "invoke" ELSE "sleep"

(* lines 56-58: connect and send GET /invocation/next; an exception here    *)
(* is caught at line 88 and (None, None, None) is returned                  *)
PollRequest ==
    /\ pc = "poll"
    /\ polls < MaxPolls
    /\ polls' = polls + 1
    /\ response' = NoResponse
    /\ request_id' = 0
    /\ generator' = "none" /\ yielded' = <<>> /\ wire' = <<>>
    /\ chunk' = <<>> /\ chunk_count' = 0 /\ total_bytes' = 0
    /\ resp_requests' = 0 /\ status' = 0
    /\ error_calls' = 0 /\ error_posts' = 0 /\ error_status' = 0
    /\ \/ /\ open' = Opened("poll")
          /\ pc' = "getresponse"
          /\ UNCHANGED returned
       \/ /\ pc' = AfterPoll(0)
          /\ returned' = <<"get_next_invocation", "return">>
          /\ UNCHANGED open
    /\ UNCHANGED <<runtime_api, trace_env>>
    /\ handler_calls' = 0 /\ targets' = <<>>
    /\ UNCHANGED aux_vars

(* lines 73-74 *)
SetTrace(env, r) == IF r.trace # 0 THEN r.trace ELSE env

(* lines 62-86: TRUE when the function reaches conn.close() and the return *)
(* of line 86; FALSE when it leaves at line 64 or through line 88          *)
PollCompletes(r) == r.status = 200 /\ r.body # "invalid" /\ r.deadline = "valid"

(* lines 60-91 followed by lines 219-222 of main *)
PollResponse ==
    /\ pc = "getresponse"
    /\ \/ \* conn.getresponse() raises
          /\ pc' = AfterPoll(0)
          /\ UNCHANGED <<response, request_id, trace_env, open>>
       \/ \E r \in PollResponses(polls) :
             /\ response' = r
             /\ trace_env' = IF r.status = 200 THEN SetTrace(trace_env, r) ELSE trace_env
             /\ open' = IF PollCompletes(r) THEN Closed("poll") ELSE open
             /\ request_id' = IF PollCompletes(r) THEN r.rid ELSE 0
             /\ pc' = AfterPoll(IF PollCompletes(r) THEN r.rid ELSE 0)
    /\ returned' = <<"get_next_invocation", "return">>
    /\ UNCHANGED <<runtime_api, polls, invocation_vars>>
    /\ UNCHANGED <<handler_calls, targets, aux_vars>>

(* lines 220-222: time.sleep(1); continue *)
Sleep ==
    /\ pc = "sleep"
    /\ pc' = "poll"
    /\ UNCHANGED <<poll_vars, open, invocation_vars, returned>>
    /\ UNCHANGED <<handler_calls, targets, aux_vars>>

(* ---------------- main, lines 224-236 ---------------- *)
(* line 227: calling a generator function runs none of its body; a plain   *)
(* function may raise here, which line 232 catches                          *)
InvokeHandler ==
    /\ pc = "invoke"
    /\ \/ /\ generator' = "created"
          /\ pc' = "stream_open"
          /\ returned' = <<"lambda_handler", "return">>
       \/ /\ generator' = "call_raised"
          /\ pc' = "send_error"
          /\ returned' = <<"lambda_handler", "raise">>
    /\ UNCHANGED <<poll_vars, open, yielded, stream_locals, wire, resp_requests,
                   status, error_vars>>
    /\ handler_calls' = handler_calls + 1
    /\ UNCHANGED <<targets, aux_vars>>

(* ---------------- stream_response ---------------- *)
(* lines 150-153 and 232-236: an exception inside stream_response is       *)
(* logged, re-raised and caught by main, which calls send_error            *)
StreamExceptSwallowed == "poll"
StreamExcept == "send_error"

(* line 119 inside the try of line 105: where control goes when pulling  *)
(* the next chunk raises                                                  *)
PullRaised == StreamExcept

StreamRaise(target) ==
    /\ pc' = target
    /\ returned' = <<"stream_response", "raise">>

(* line 103: the request id in the url is the one main passed at line 230 *)
ResponseTargetStale(rid) == IF rid > 1 THEN rid - 1 ELSE rid
ResponseTarget(rid) == rid

(* lines 106-113: connect, putrequest, putheader x2, endheaders *)
StreamOpen ==
    /\ pc = "stream_open"
    /\ \/ /\ open' = Opened("response")
          /\ resp_requests' = resp_requests + 1
          /\ targets' = Append(targets, <<"response", ResponseTarget(request_id)>>)
          /\ pc' = "pull"
          /\ UNCHANGED returned
       \/ \* connection refused
          /\ StreamRaise(StreamExcept)
          /\ UNCHANGED <<open, resp_requests, targets>>
    /\ UNCHANGED <<poll_vars, generator, yielded, stream_locals, wire, status, error_vars>>
    /\ UNCHANGED <<handler_calls, aux_vars>>

(* lines 119-126: pull the next chunk, encode it, update the counters *)
Pull ==
    /\ pc = "pull"
    /\ \/ \E c \in ChunkPool :
             /\ Len(yielded) < MaxChunks
             /\ yielded' = Append(yielded, c)
             /\ generator' = "running"
             /\ chunk' = EncodeChunk(c)
             /\ total_bytes' = total_bytes + Len(EncodeChunk(c))
             /\ chunk_count' = chunk_count + 1
             /\ pc' = "send_size"
             /\ UNCHANGED returned
       \/ \* StopIteration
          /\ generator' = "exhausted"
          /\ pc' = "send_term"
          /\ UNCHANGED <<yielded, stream_locals, returned>>
       \/ \* the handler raises
          /\ generator' = "raised"
          /\ StreamRaise(PullRaised)
          /\ UNCHANGED <<yielded, stream_locals>>
    /\ UNCHANGED <<poll_vars, open, wire, resp_requests, status, error_vars>>
    /\ UNCHANGED <<handler_calls, targets, aux_vars>>

(* conn.send(b): the bytes are written, or the call raises and nothing is *)
SendOrRaise(b, next) ==
    \/ /\ wire' = Append(wire, b)
       /\ pc' = next
       /\ UNCHANGED returned
    \/ /\ StreamRaise(StreamExcept)
       /\ UNCHANGED wire

(* line 131: the bytes sent are those of the chunk just pulled *)
DataStale(c) == IF yielded = <<>> THEN c ELSE EncodeChunk(yielded[1])
Data(c) == c

(* line 130 *)
SendSize ==
    /\ pc = "send_size"
    /\ SendOrRaise(SizeLine(Len(chunk)), "send_data")
    /\ UNCHANGED <<poll_vars, open, generator, yielded, stream_locals,
                   resp_requests, status, error_vars>>
    /\ UNCHANGED <<handler_calls, targets, aux_vars>>

(* line 131 *)
SendData ==
    /\ pc = "send_data"
    /\ SendOrRaise(Data(chunk), "send_crlf")
    /\ UNCHANGED <<poll_vars, open, generator, yielded, stream_locals,
                   resp_requests, status, error_vars>>
    /\ UNCHANGED <<handler_calls, targets, aux_vars>>

(* line 132 *)
SendCRLF ==
    /\ pc = "send_crlf"
    /\ SendOrRaise(CRLF, "pull")
    /\ UNCHANGED <<poll_vars, open, generator, yielded, stream_locals,
                   resp_requests, status, error_vars>>
    /\ UNCHANGED <<handler_calls, targets, aux_vars>>

(* line 137 *)
SendTerminator ==
    /\ pc = "send_term"
    /\ SendOrRaise(TERMINATOR, "read_ack")
    /\ UNCHANGED <<poll_vars, open, generator, yielded, stream_locals,
                   resp_requests, status, error_vars>>
    /\ UNCHANGED <<handler_calls, targets, aux_vars>>

(* lines 143-146: both branches only log *)
AckExitStrict(st) == IF st = 202 THEN "return" ELSE "raise"
AckExit(st) == "return"

(* lines 140-148 *)
ReadAck ==
    /\ pc = "read_ack"
    /\ \/ \E st \in AckStatuses :
             /\ status' = st
             /\ IF AckExit(st) = "return"
                  THEN /\ open' = Closed("response")
                       /\ pc' = "poll"
                       /\ returned' = <<"stream_response", "return">>
                  ELSE /\ StreamRaise(StreamExcept)
                       /\ UNCHANGED open
       \/ \* getresponse() or read() raises
          /\ StreamRaise(StreamExcept)
          /\ UNCHANGED <<open, status>>
    /\ UNCHANGED <<poll_vars, generator, yielded, stream_locals, wire,
                   resp_requests, error_vars>>
    /\ UNCHANGED <<handler_calls, targets, aux_vars>>

(* ---------------- send_error ---------------- *)
(* lines 187-188: whatever is raised inside send_error is logged only *)
SendErrorExceptRaises == "raise"
SendErrorExcept == "return"

(* where main goes on when send_error is left through its except clause:   *)
(* on a return the loop polls again, an exception reaches lines 242-246    *)
SendErrorFailed ==
    /\ returned' = <<"send_error", SendErrorExcept>>
    /\ pc' = IF SendErrorExcept = "return" THEN "poll" ELSE "sleep"

(* line 165: the request id in the url is the one main passed at line 236 *)
ErrorTarget(rid) == rid

(* lines 168-180: build the report, connect, POST it *)
SendErrorRequest ==
    /\ pc = "send_error"
    /\ error_calls' = error_calls + 1
    /\ \/ /\ open' = Opened("error")
          /\ error_posts' = error_posts + 1
          /\ targets' = Append(targets, <<"error", ErrorTarget(request_id)>>)
          /\ pc' = "error_ack"
          /\ UNCHANGED returned
       \/ \* building the report fails, or the connection is refused
          /\ SendErrorFailed
          /\ UNCHANGED <<open, error_posts, targets>>
    /\ UNCHANGED <<poll_vars, generator, yielded, stream_locals, wire,
                   resp_requests, status, error_status>>
    /\ UNCHANGED <<handler_calls, aux_vars>>

(* lines 181-185 *)
SendErrorAck ==
    /\ pc = "error_ack"
    /\ \/ \E st \in AckStatuses :
             /\ error_status' = st
             /\ open' = Closed("error")
             /\ pc' = "poll"
             /\ returned' = <<"send_error", "return">>
       \/ \* getresponse() or read() raises
          /\ SendErrorFailed
          /\ UNCHANGED <<open, error_status>>
    /\ UNCHANGED <<poll_vars, generator, yielded, stream_locals, wire,
                   resp_requests, status, error_calls, error_posts>>
    /\ UNCHANGED <<handler_calls, targets, aux_vars>>

(* ---------------- main, lines 238-240 ---------------- *)
InLoop == pc \notin {"start", "exited", "stopped"}

Interrupt ==
    /\ InLoop
    /\ pc' = "stopped"
    /\ UNCHANGED <<poll_vars, open, invocation_vars, returned>>
    /\ UNCHANGED <<handler_calls, targets, aux_vars>>

Next ==
    \/ Startup
    \/ PollRequest
    \/ PollResponse
    \/ Sleep
    \/ InvokeHandler
    \/ StreamOpen
    \/ Pull
    \/ SendSize
    \/ SendData
    \/ SendCRLF
    \/ SendTerminator
    \/ ReadAck
    \/ SendErrorRequest
    \/ SendErrorAck
    \/ Interrupt

Spec == Init /\ [][Next]_vars

(* the single thread of main keeps executing: every step of the program  *)
(* other than the external interrupt is taken when it is the next one    *)
Step ==
    \/ Startup \/ PollRequest \/ PollResponse \/ Sleep \/ InvokeHandler
    \/ StreamOpen \/ Pull \/ SendSize \/ SendData \/ SendCRLF \/ SendTerminator
    \/ ReadAck \/ SendErrorRequest \/ SendErrorAck

LiveSpec == Spec /\ WF_vars(Step)

TypeOK ==
    /\ polls \in 0..MaxPolls
    /\ \A k \in Kinds : open[k] \in 0..polls
    /\ Len(yielded) <= MaxChunks
    /\ chunk_count = Len(yielded)
    /\ handler_calls \in 0..1
    /\ Len(targets) <= 2

(* ---------------- LambdaContext ---------------- *)
(* lines 42-43 *)
RemainingUnclamped(deadline, now) == deadline - now
get_remaining_time_in_millis(deadline, now) ==
    LET remaining_ms == deadline - now
    IN  IF remaining_ms > 0 THEN remaining_ms ELSE 0

(* a context with some deadline, at some time not after MaxTime *)
TimeInit ==
    /\ InitRuntime /\ runtime_api # ""
    /\ HandlerIdle
    /\ deadline_ms \in 0..MaxTime
    /\ now_ms \in 0..MaxTime
    /\ remaining = <<>>

(* time.time() advances *)
Tick ==
    /\ now_ms <= MaxTime
    /\ now_ms' = now_ms + 1
    /\ UNCHANGED <<runtime_vars, handler_vars, deadline_ms, remaining>>

(* lines 40-43: one call of context.get_remaining_time_in_millis() *)
CallRemaining ==
    /\ remaining' = (IF remaining = <<>> THEN <<>> ELSE <<remaining[Len(remaining)]>>)
                       \o << [at |-> now_ms,
                              value |-> get_remaining_time_in_millis(deadline_ms, now_ms)] >>
    /\ UNCHANGED <<runtime_vars, handler_vars, deadline_ms, now_ms>>

TimeNext == Tick \/ CallRemaining

TimeSpec == TimeInit /\ [][TimeNext]_vars

(* ---------------- lambda_handler (src/lambda_function.py) ------------- *)
(* text is a sequence of code points *)
HelloWorld == <<72, 101, 108, 108, 111, 32, 119, 111, 114, 108, 100>>  \* 'Hello world'
HelloThisIsATest == <<72, 101, 108, 108, 111, 32, 116, 104, 105, 115, 32, 105, 115, 32, 97, 32, 116, 101, 115, 116>>  \* 'Hello this is a test'
WordKey == <<123, 34, 119, 111, 114, 100, 34, 58, 32, 34>>  \* {"word": "
IndexKey == <<34, 44, 32, 34, 105, 110, 100, 101, 120, 34, 58, 32>>  \* ", "index":
TotalKey == <<44, 32, 34, 116, 111, 116, 97, 108, 34, 58, 32>>  \* , "total":
Quote == 34
Backslash == 92
Newline == 10
CloseBrace == 125

(* the whitespace str.split() separates on *)
IsSpace(cp) == cp \in {9, 10, 11, 12, 13, 28, 29, 30, 31, 32, 133, 160}

(* line 23: sentence.split() *)
RECURSIVE SplitAcc(_, _, _)
SplitAcc(s, word, words) ==
    IF s = <<>> THEN (IF word = <<>> THEN words ELSE Append(words, word))
    ELSE IF IsSpace(Head(s))
         THEN SplitAcc(Tail(s), <<>>, IF word = <<>> THEN words ELSE Append(words, word))
         ELSE SplitAcc(Tail(s), Append(word, Head(s)), words)

split(s) == SplitAcc(s, <<>>, <<>>)

(* str(n) as json.dumps writes an int *)
RECURSIVE Dec(_)
Dec(n) == IF n < 10 THEN <<Zero + n>> ELSE Dec(n \div 10) \o <<Zero + (n % 10)>>

(* json.dumps of one character of a string (printable ASCII) *)
JsonEscapeNone(cp) == <<cp>>
JsonEscape(cp) == IF cp = Quote \/ cp = Backslash THEN <<Backslash, cp>> ELSE <<cp>>

(* lines 26-32: json.dumps(chunk) + '\n', encoded *)
json_dumps(word, i, total) ==
    WordKey \o Flat([k \in 1..Len(word) |-> JsonEscape(word[k])])
        \o IndexKey \o Dec(i) \o TotalKey \o Dec(total) \o <<CloseBrace>>

HandlerChunk(words, i) == Utf8(json_dumps(words[i + 1], i, Len(words)) \o <<Newline>>)

(* line 22: event.get('sentence', 'Hello world') *)
Sentence(ev) == IF ev.has THEN ev.sentence ELSE HelloWorld

Alphabet == {97, Quote, 32, 9}

RECURSIVE TextsUpTo(_)
TextsUpTo(n) ==
    IF n = 0 THEN {<<>>}
    ELSE LET shorter == TextsUpTo(n - 1)
         IN  shorter \cup {Append(t, c) : t \in shorter, c \in Alphabet}

Events ==
    {NoEvent} \cup {[has |-> TRUE, sentence |-> t] :
                       t \in TextsUpTo(MaxSentenceLen) \cup {HelloThisIsATest}}

(* line 19 of src/main.py: the handler is called with some event *)
HandlerInit ==
    /\ InitRuntime /\ runtime_api # ""
    /\ TimeIdle
    /\ event \in Events
    /\ handler_pc = "created"
    /\ index = 0
    /\ chunks = <<>>

(* lines 25-35: one pass of the for loop, up to its yield *)
HandlerYield ==
    /\ handler_pc \in {"created", "running"}
    /\ index < Len(split(Sentence(event)))
    /\ chunks' = Append(chunks, HandlerChunk(split(Sentence(event)), index))
    /\ index' = index + 1
    /\ handler_pc' = "running"
    /\ UNCHANGED <<runtime_vars, time_vars, event>>

(* the for loop of line 25 ends: StopIteration *)
HandlerReturn ==
    /\ handler_pc \in {"created", "running"}
    /\ index = Len(split(Sentence(event)))
    /\ handler_pc' = "done"
    /\ UNCHANGED <<runtime_vars, time_vars, event, index, chunks>>

HandlerNext == HandlerYield \/ HandlerReturn

HandlerSpec == HandlerInit /\ [][HandlerNext]_vars

(* ---------------- reading the wire ---------------- *)
(* the response connection carries three sends per chunk (lines 130-132)   *)
(* and one send for the terminator (line 137)                              *)
TerminatorSent == Len(wire) = 3 * Len(yielded) + 1
FramesWritten == Len(wire) \div 3
Frame(k) == wire[3 * k - 2] \o wire[3 * k - 1] \o wire[3 * k]
PayloadsWritten == (Len(wire) + 1) \div 3
Payload(k) == wire[3 * k - 1]

(* all complete frames on the wire, the terminator included *)
AllFrames ==
    [k \in 1..FramesWritten |-> Frame(k)]
        \o (IF TerminatorSent THEN <<wire[Len(wire)]>> ELSE <<>>)

(* the bytes the handler meant to deliver *)
ChunkBytes(c) == IF c.isStr THEN Utf8(c.data) ELSE c.data
YieldedBytes == Flat([k \in 1..Len(yielded) |-> ChunkBytes(yielded[k])])

(* a chunked-transfer decoder (RFC 9112, 7.1) *)
HexDigitValue(b) ==
    IF b >= 48 /\ b <= 57 THEN b - 48
    ELSE IF b >= 65 /\ b <= 70 THEN b - 55
    ELSE IF b >= 97 /\ b <= 102 THEN b - 87
    ELSE -1

RECURSIVE HexValue(_)
HexValue(ds) ==
    IF ds = <<>> THEN 0
    ELSE HexValue(SubSeq(ds, 1, Len(ds) - 1)) * 16 + HexDigitValue(ds[Len(ds)])

CrlfAt(b, i) == i + 1 <= Len(b) /\ b[i] = CR /\ b[i + 1] = LF
HasCrlf(b) == \E i \in 1..Len(b) : CrlfAt(b, i)
FirstCrlf(b) == CHOOSE i \in 1..Len(b) : CrlfAt(b, i) /\ \A j \in 1..(i - 1) : ~CrlfAt(b, j)

RECURSIVE Decode(_)
Decode(b) ==
    IF ~HasCrlf(b) THEN <<>>
    ELSE LET i == FirstCrlf(b)
             n == HexValue(SubSeq(b, 1, i - 1))
         IN  IF n <= 0 \/ i + n + 3 > Len(b) THEN <<>>
             ELSE SubSeq(b, i + 2, i + 1 + n) \o Decode(SubSeq(b, i + n + 4, Len(b)))

IsUpperHex(b) == (b >= 48 /\ b <= 57) \/ (b >= 65 /\ b <= 70)

RECURSIVE HexWidth(_)
HexWidth(n) == IF n < 16 THEN 1 ELSE 1 + HexWidth(n \div 16)

RECURSIVE FramedLength(_)
FramedLength(cs) ==
    IF cs = <<>> THEN 0
    ELSE HexWidth(Len(ChunkBytes(Head(cs)))) + 2 + Len(ChunkBytes(Head(cs))) + 2
         + FramedLength(Tail(cs))

InvocationOver == pc = "poll" /\ request_id # 0

(* ---------------- properties ---------------- *)

(* C1: when the first pull from the generator raises, the runtime has made *)
(* no request to the invocation's /response endpoint, and by the next poll *)
(* it has made exactly one error report.                                    *)
C1_PreStreamFailure ==
    (generator = "raised" /\ yielded = <<>>) =>
        /\ resp_requests = 0
        /\ (pc = "poll" => error_calls = 1)

(* C2: when the handler yields N >= 1 chunks and then raises, exactly N    *)
(* chunk frames are on the response connection, none of the frames written *)
(* is the terminator 0 CR LF CR LF, and by the next poll main has made one *)
(* error-report attempt.                                                    *)
C2_MidStreamFailure ==
    (generator = "raised" /\ Len(yielded) >= 1) =>
        /\ Len(wire) = 3 * Len(yielded)
        /\ \A k \in 1..Len(AllFrames) : AllFrames[k] # TERMINATOR
        /\ (pc = "poll" => error_calls = 1)

(* C3: once the chunk sequence is exhausted and the terminator sent, the   *)
(* bytes 0 CR LF CR LF occur exactly once among the frames, as the last.   *)
C3_TerminatorOnce ==
    (generator = "exhausted" /\ TerminatorSent) =>
        /\ AllFrames[Len(AllFrames)] = TERMINATOR
        /\ \A k \in 1..(Len(AllFrames) - 1) : AllFrames[k] # TERMINATOR

(* C4: decoding the bytes of a terminated stream up to the first           *)
(* zero-length frame gives back the concatenation of the yielded chunks.   *)
C4_RoundTrip ==
    (generator = "exhausted" /\ TerminatorSent) => Decode(Flat(wire)) = YieldedBytes

(* C5: the payloads on the wire are a prefix of the yielded chunks, in     *)
(* order, each once, and a chunk is completely framed before the next one  *)
(* is pulled.                                                               *)
C5_OrderedPrefix ==
    /\ PayloadsWritten <= Len(yielded)
    /\ \A k \in 1..PayloadsWritten : Payload(k) = ChunkBytes(yielded[k])
    /\ Len(yielded) - PayloadsWritten <= 1
    /\ (pc = "pull" => Len(wire) = 3 * Len(yielded))

C5_Witness ==
    /\ pc = "pull"
    /\ Len(yielded) = 2
    /\ yielded[1] # yielded[2]
    /\ PayloadsWritten = 2

(* C6: every chunk frame is an uppercase hexadecimal length without        *)
(* leading zero, CR LF, the payload, CR LF; the length is the number of    *)
(* payload bytes, which for a str chunk is its UTF-8 length; a terminated  *)
(* stream has sum(hex width + 2 + length + 2) + 5 bytes.                   *)
C6_FrameForm ==
    /\ \A k \in 1..FramesWritten :
          LET line == wire[3 * k - 2]
              digits == SubSeq(line, 1, Len(line) - 2)
          IN  /\ Len(line) >= 3
              /\ SubSeq(line, Len(line) - 1, Len(line)) = CRLF
              /\ \A i \in 1..Len(digits) : IsUpperHex(digits[i])
              /\ (Len(digits) > 1 => digits[1] # Zero)
              /\ HexValue(digits) = Len(Payload(k))
              /\ Len(Payload(k)) = Len(ChunkBytes(yielded[k]))
              /\ wire[3 * k] = CRLF
    /\ (TerminatorSent => Len(Flat(wire)) = FramedLength(yielded) + 5)

C6_Witness ==
    /\ TerminatorSent
    /\ \E k \in 1..FramesWritten : yielded[k].isStr /\ Len(Payload(k)) > Len(yielded[k].data)
    /\ \E k \in 1..FramesWritten : Len(Payload(k)) >= 16

(* C7: for no invocation is the stream completed (terminator written and   *)
(* acknowledgment read) and an error report posted as well.                *)
StreamCompleted == generator = "exhausted" /\ TerminatorSent /\ status # 0

C7_NeverBoth == ~(StreamCompleted /\ error_posts > 0)

C7_Witness == StreamCompleted /\ status = 500 /\ pc = "poll" /\ error_calls = 0

(* C8, as stated: before the next poll every polled invocation has a       *)
(* terminated body acknowledged with 202 or an error report acknowledged   *)
(* with 202.                                                                *)
C8_AcknowledgedOutcome ==
    InvocationOver => (StreamCompleted /\ status = 202) \/ error_status = 202

(* C8, amended: before the next poll every polled invocation has either a  *)
(* terminated body whose acknowledgment was read, whatever its status, and *)
(* no error report, or exactly one attempted error report.                 *)
C8_OutcomeOrAttempt ==
    InvocationOver =>
        \/ StreamCompleted /\ error_calls = 0
        \/ ~StreamCompleted /\ error_calls = 1

C8_Witness == InvocationOver /\ StreamCompleted /\ status = 500 /\ Len(yielded) >= 1

(* C9: a connection opened by a function is closed when that function has *)
(* returned or raised.                                                      *)
C9_ConnectionsClosed ==
    /\ (pc # "getresponse" => open["poll"] = 0)
    /\ (pc \notin {"pull", "send_size", "send_data", "send_crlf", "send_term", "read_ack"}
            => open["response"] = 0)
    /\ (pc # "error_ack" => open["error"] = 0)

(* C10: send_error always returns normally, is called and posts at most    *)
(* once per invocation, and after it the loop polls again.                 *)
C10_ReportSwallowed ==
    /\ (returned[1] = "send_error" =>
            returned[2] = "return" /\ pc \in {"poll", "getresponse", "stopped"})
    /\ error_calls <= 1
    /\ error_posts <= 1

C10_Witness ==
    /\ returned = <<"send_error", "return">>
    /\ pc = "poll"
    /\ error_posts = 1
    /\ error_status = 0

(* C11: after a failed poll (transport error or status other than 200)    *)
(* there is no request id, the handler is not invoked, nothing is sent to *)
(* /response or /error, and the loop is sleeping before, or issuing, the  *)
(* next poll.                                                              *)
PollFailed == polls > 0 /\ response.status # 200 /\ pc # "getresponse"

C11_PollFailureRetries ==
    PollFailed =>
        /\ request_id = 0
        /\ generator = "none"
        /\ resp_requests = 0
        /\ error_calls = 0 /\ error_posts = 0
        /\ pc \in {"sleep", "poll", "stopped"}

C11_Witness == PollFailed /\ response.status = 500 /\ pc = "poll"

(* C12: a poll answer with status 200, a request id and a readable body   *)
(* whose deadline header is missing or malformed is delivered to the      *)
(* handler.                                                                *)
C12_DeadlineNotFatal ==
    (response.status = 200 /\ response.rid # 0 /\ response.body # "invalid"
        /\ response.deadline # "valid")
    => (request_id = response.rid /\ pc # "sleep")

(* C14: with the endpoint configuration absent the process exits before  *)
(* the loop: no poll, no handler call, no request.                        *)
C14_ConfigErrorExits ==
    runtime_api = "" =>
        /\ pc \in {"start", "exited"}
        /\ polls = 0
        /\ generator = "none"
        /\ resp_requests = 0 /\ error_posts = 0
        /\ \A k \in Kinds : open[k] = 0

C14_Witness == runtime_api = "" /\ pc = "exited"

(* C17: when the loop is back at polling after a poll answer that carried *)
(* a request id, either the stream completed or an error report was made  *)
(* for it; without a request id no report is made.                        *)
C17_FailureReported ==
    (pc \in {"poll", "sleep"} /\ polls > 0) =>
        /\ (response.rid # 0 /\ ~StreamCompleted => error_calls = 1)
        /\ (response.rid = 0 => error_calls = 0)

(* C18: at most one connection is open at any time. *)
C18_OneConnection == open["poll"] + open["response"] + open["error"] <= 1

(* C19: while the handler runs, the ambient trace id is the one carried   *)
(* by this invocation's poll answer.                                       *)
HandlerRunning == pc \in {"invoke", "stream_open", "pull", "send_size", "send_data",
                          "send_crlf", "send_term"}

C19_TraceIsCurrent == HandlerRunning => trace_env = response.trace

(* C20: the handler is called exactly once for an invocation that was     *)
(* polled successfully and not at all otherwise; every request to         *)
(* /response or /error carries the request id of the latest successful    *)
(* poll, which no earlier invocation had; and the loop is back at the     *)
(* poll only when the stream has ended or the error report was attempted. *)
C20_RequestIdConsistency ==
    /\ handler_calls <= 1
    /\ (request_id = 0 \/ response.status # 200 => handler_calls = 0)
    /\ (request_id # 0 /\ pc \notin {"invoke", "stopped"} => handler_calls = 1)
    /\ (request_id # 0 => request_id = polls /\ request_id = response.rid)
    /\ \A i \in 1..Len(targets) : targets[i][2] = request_id /\ request_id # 0
    /\ (InvocationOver => StreamCompleted \/ error_calls = 1)

C20_Witness ==
    /\ polls = 2
    /\ Len(targets) = 2
    /\ targets[1] = <<"response", 2>>
    /\ targets[2] = <<"error", 2>>

(* C13: the process exits only before the first poll, it stops only on    *)
(* the external interrupt, and from every position inside the loop it     *)
(* comes back to the poll of /invocation/next unless interrupted.         *)
C13_LoopNeverAborts ==
    /\ [](pc = "exited" => polls = 0)
    /\ [][pc' = "stopped" => pc = "stopped" \/ (InLoop /\ UNCHANGED <<polls, returned, open>>)]_vars
    /\ [](InLoop => <>(pc = "poll" \/ pc = "stopped"))

C13_Witness ==
    /\ polls = 2
    /\ pc = "getresponse"
    /\ open["response"] = 1
    /\ open["error"] = 1

(* C15: every result of get_remaining_time_in_millis is deadline - now at *)
(* the time of the call when that is positive and 0 otherwise, so never   *)
(* negative, and two calls at different times before the deadline give    *)
(* different results.                                                      *)
C15_RemainingTime ==
    /\ \A i \in 1..Len(remaining) :
          /\ remaining[i].value >= 0
          /\ (remaining[i].at >= deadline_ms => remaining[i].value = 0)
          /\ (remaining[i].at < deadline_ms =>
                  remaining[i].value + remaining[i].at = deadline_ms)
    /\ \A i, j \in 1..Len(remaining) :
          (remaining[i].at < deadline_ms /\ remaining[j].at < deadline_ms
              /\ remaining[i].at # remaining[j].at)
          => remaining[i].value # remaining[j].value

C15_Witness ==
    /\ Len(remaining) = 2
    /\ remaining[1].at < deadline_ms /\ remaining[1].value > 0
    /\ remaining[2].at > deadline_ms /\ remaining[2].value = 0

(* reading a chunk of the handler back as JSON text *)
StartsWith(s, p) == Len(s) >= Len(p) /\ SubSeq(s, 1, Len(p)) = p
Drop(s, n) == SubSeq(s, n + 1, Len(s))

(* the string literal whose opening quote has been consumed *)
RECURSIVE ReadString(_, _)
ReadString(s, acc) ==
    IF s = <<>> THEN [ok |-> FALSE, text |-> acc, rest |-> <<>>]
    ELSE IF Head(s) = 34 THEN [ok |-> TRUE, text |-> acc, rest |-> Tail(s)]
    ELSE IF Head(s) = 92 /\ Len(s) >= 2 THEN ReadString(Drop(s, 2), Append(acc, s[2]))
    ELSE ReadString(Tail(s), Append(acc, Head(s)))

IsDigit(b) == b >= 48 /\ b <= 57

RECURSIVE ReadNumber(_, _, _)
ReadNumber(s, n, seen) ==
    IF s # <<>> /\ IsDigit(Head(s)) THEN ReadNumber(Tail(s), 10 * n + Head(s) - 48, TRUE)
    ELSE [ok |-> seen, number |-> n, rest |-> s]

(* c is {"word": w, "index": i, "total": n} followed by a newline *)
Carries(c, w, i, n) ==
    LET word == ReadString(Drop(c, 10), <<>>)
        idx == ReadNumber(Drop(word.rest, 11), 0, FALSE)
        tot == ReadNumber(Drop(idx.rest, 11), 0, FALSE)
    IN  /\ StartsWith(c, <<123, 34, 119, 111, 114, 100, 34, 58, 32, 34>>)
        /\ word.ok /\ word.text = w
        /\ StartsWith(word.rest, <<44, 32, 34, 105, 110, 100, 101, 120, 34, 58, 32>>)
        /\ idx.ok /\ idx.number = i
        /\ StartsWith(idx.rest, <<44, 32, 34, 116, 111, 116, 97, 108, 34, 58, 32>>)
        /\ tot.ok /\ tot.number = n
        /\ tot.rest = <<125, 10>>

(* the whitespace-separated words of a text, by position *)
Blank(cp) == cp \in {9, 10, 11, 12, 13, 32}
WordStarts(s) == {i \in 1..Len(s) : ~Blank(s[i]) /\ (i = 1 \/ Blank(s[i - 1]))}
NthStart(s, k) ==
    CHOOSE i \in WordStarts(s) : Cardinality({j \in WordStarts(s) : j < i}) = k - 1
WordEnd(s, i) ==
    CHOOSE j \in i..Len(s) :
        /\ \A m \in i..j : ~Blank(s[m])
        /\ (j = Len(s) \/ Blank(s[j + 1]))
NthWord(s, k) == SubSeq(s, NthStart(s, k), WordEnd(s, NthStart(s, k)))

(* C16: the reference handler yields, in order, one newline-terminated    *)
(* JSON object per whitespace-separated word of event['sentence'] ('Hello *)
(* world' without that field), carrying the word, its zero-based index    *)
(* and the number of words; 2 chunks for an empty event, 5 for 'Hello     *)
(* this is a test'.                                                        *)
C16_WordPerChunk ==
    handler_pc # "idle" =>
        LET s == IF event.has THEN event.sentence
                 ELSE <<72, 101, 108, 108, 111, 32, 119, 111, 114, 108, 100>>
            n == Cardinality(WordStarts(s))
        IN  /\ Len(chunks) = index
            /\ Len(chunks) <= n
            /\ (handler_pc = "done" => Len(chunks) = n)
            /\ \A k \in 1..Len(chunks) : Carries(chunks[k], NthWord(s, k), k - 1, n)
            /\ (handler_pc = "done" /\ ~event.has => Len(chunks) = 2)
            /\ (handler_pc = "done" /\ event = [has |-> TRUE, sentence |-> HelloThisIsATest]
                    => Len(chunks) = 5)

C16_Witness ==
    /\ handler_pc = "done"
    /\ event = [has |-> TRUE, sentence |-> HelloThisIsATest]
    /\ Len(chunks) = 5
    /\ Carries(chunks[5], <<116, 101, 115, 116>>, 4, 5)

====
